---------------------------- MODULE Spec2Model ----------------------------
(***************************************************************************)
(* Model of convPoolNeuralNetwork.py: a five-filter 3x3 convolution with   *)
(* 2x2 stride-1 max pooling, a stack of dense layers, a softmax /          *)
(* cross-entropy head, and the full-batch gradient-descent training loop.  *)
(*                                                                         *)
(* Numbers.  numpy's float64 values are modelled as fixed-point integers   *)
(* in units of 1/Scale; every product and quotient is rounded to the grid  *)
(* (FMul, FDiv, DivInt) the way a floating-point operation rounds to its   *)
(* format.  Sums, differences, comparisons and maxima are exact.           *)
(*                                                                         *)
(* Arrays.  A 2-d array is a function [0..rows-1 -> [0..cols-1 -> Int]],   *)
(* indexed from 0 as in the source; the image batch X[r][c][j] has the     *)
(* sample index last, as the source's (28, 28, m) array.                   *)
(*                                                                         *)
(* Shapes.  The source fixes the image side at 28 (conv map 26, pooled map *)
(* 25, upsampled map 50).  The model derives all of them from ImgSize so   *)
(* that a small image side can be explored exhaustively:                   *)
(*   ConvSide = ImgSize - KernelSize + 1   (26 in the source)              *)
(*   PoolSide = ConvSide - 1               (25 in the source)              *)
(***************************************************************************)
EXTENDS Integers, Sequences, FiniteSets, TLC

VARIABLES
    X,              \* image batch handed to the run
    Y,              \* labels, one per sample
    net_dims,       \* layer sizes of the dense stack
    num_iterations, learning_rate, decay_rate,
    pc,             \* position in multi_layer_network / classify
    caller,         \* which function runs the forward path
    ii,             \* epoch counter of the training loop
    parameters,     \* dense weights and biases, by layer
    convParameters, \* the five filters and biases
    A0, convCache,  \* conv_forward's result
    l, A, caches,   \* multi_layer_forward's loop state; later AL is A
    smA, cost,      \* softmax activations (cache["A"]) and the loss
    dA, activation, gradients, cacheReads, \* multi_layer_backward's loop state
    dA_prev,        \* conv_backward's dA at line 361, the gradient on the conv maps
    convGradients,
    alpha,
    costs, printed, \* the returned cost list and the lines printed
    lossLog,        \* history: the loss each epoch's forward pass computed
    Ypred

vars == <<X, Y, net_dims, num_iterations, learning_rate, decay_rate, pc, caller,
          ii, parameters, convParameters, A0, convCache, l, A, caches, smA,
          cost, dA, activation, gradients, cacheReads, dA_prev, convGradients,
          alpha, costs, printed, lossLog, Ypred>>

-----------------------------------------------------------------------------
(* Bounds of the model *)

Scale == 1000        \* fixed-point units per 1.0
ExpSquarings == 4    \* exp(t) is computed as (1 + t/2^k)^(2^k), k squarings
ImgSize == 5         \* image side (28 in the source)
BatchSize == 2       \* samples per batch (m)
NumClasses == 3      \* rows of the last dense layer
MaxIter == 21        \* largest num_iterations explored

(* Constants of the program *)

NumFilters == 5
KernelSize == 3
ReportEvery == 10

ConvSide == ImgSize - KernelSize + 1
PoolSide == ConvSide - 1
ConvDim == ConvSide * ConvSide       \* dim = 26 * 26 in conv_backward
PoolDim == PoolSide * PoolSide       \* dim = 25 * 25 in conv_forward

-----------------------------------------------------------------------------
(* Fixed-point arithmetic *)

Round(n, d) == (2 * n + d) \div (2 * d)          \* n / d to the nearest, d > 0
FMul(a, b) == Round(a * b, Scale)
FDiv(a, b) == IF b > 0 THEN Round(a * Scale, b) ELSE Round((0 - a) * Scale, 0 - b)
DivInt(a, n) == Round(a, n)                      \* float / positive int
One == Scale

RECURSIVE SumFn(_, _)
SumFn(f, n) == IF n = 0 THEN 0 ELSE f[n - 1] + SumFn(f, n - 1)

RECURSIVE MaxFn(_, _)
MaxFn(f, n) == IF n = 1 THEN f[0]
               ELSE LET rest == MaxFn(f, n - 1) IN IF f[n - 1] > rest THEN f[n - 1] ELSE rest

\* An array value.  TLC keeps a function expression unevaluated and evaluates
\* its body again at every application; comparing it materialises it once.
Arr(f) == IF f = f THEN f ELSE f

Rows(M) == Cardinality(DOMAIN M)
Cols(M) == Cardinality(DOMAIN M[0])


-----------------------------------------------------------------------------
(* numpy / scipy array operations used by the convolution engine *)

\* X[:, :, j]
Sample(Xb, j) == Arr([r \in DOMAIN Xb |-> [c \in DOMAIN Xb[r] |-> Xb[r][c][j]]])

\* signal.convolve2d(In, W, mode='valid'): a true convolution, the kernel is
\* applied flipped in both axes
Convolve2dValid(In, W) ==
    LET k == Rows(W)
        n == Rows(In) - k + 1
    IN Arr([x \in 0..(n - 1) |-> [y \in 0..(n - 1) |->
          SumFn([t \in 0..(k * k - 1) |->
                   FMul(In[x + (k - 1) - (t \div k)][y + (k - 1) - (t % k)],
                        W[t \div k][t % k])], k * k)]])

\* z + b for a scalar b
AddScalar(M, b) == Arr([r \in DOMAIN M |-> [c \in DOMAIN M[r] |-> M[r][c] + b]])

\* np.repeat(M, 2, axis=0) then np.repeat(., 2, axis=1)
Repeat2(M) ==
    LET n == Rows(M)
        c == Cols(M)
    IN Arr([u \in 0..(2 * n - 1) |-> [v \in 0..(2 * c - 1) |-> M[u \div 2][v \div 2]]])

\* mutant of Trim1: the slice taken from the first row and column, M[0:-2, 0:-2]
Trim1_FromOrigin(M) ==
    LET n == Rows(M)
        c == Cols(M)
    IN Arr([u \in 0..(n - 3) |-> [v \in 0..(c - 3) |-> M[u][v]]])

\* M[1:-1, 1:-1]
Trim1(M) ==
    LET n == Rows(M)
        c == Cols(M)
    IN Arr([u \in 0..(n - 3) |-> [v \in 0..(c - 3) |-> M[u + 1][v + 1]]])

Max2(a, b) == IF a > b THEN a ELSE b

\* M.reshape((n, 2, n, 2)).max(axis=(1, 3)) for a (2n x 2n) array
BlockMax(M, n) ==
    Arr([r \in 0..(n - 1) |-> [c \in 0..(n - 1) |->
        Max2(Max2(M[2 * r][2 * c], M[2 * r][2 * c + 1]),
             Max2(M[2 * r + 1][2 * c], M[2 * r + 1][2 * c + 1]))]])

\* M.reshape((n, 2, n, 2)) summed over axes (1, 3)
BlockSum(M, n) ==
    Arr([r \in 0..(n - 1) |-> [c \in 0..(n - 1) |->
        M[2 * r][2 * c] + M[2 * r][2 * c + 1]
        + M[2 * r + 1][2 * c] + M[2 * r + 1][2 * c + 1]]])

\* mutant of Pad1: both padding rows and columns placed after the data
Pad1_AtEnd(M) ==
    LET n == Rows(M)
        c == Cols(M)
    IN Arr([u \in 0..(n + 1) |-> [v \in 0..(c + 1) |->
          IF u >= n \/ v >= c THEN 0 ELSE M[u][v]]])

\* np.pad(M, 1, 'constant', constant_values=0)
Pad1(M) ==
    LET n == Rows(M)
        c == Cols(M)
    IN Arr([u \in 0..(n + 1) |-> [v \in 0..(c + 1) |->
          IF u = 0 \/ v = 0 \/ u = n + 1 \/ v = c + 1 THEN 0 ELSE M[u - 1][v - 1]]])

\* np.equal(P, Q) stored into an int array
EqualMask(P, Q) ==
    Arr([u \in DOMAIN P |-> [v \in DOMAIN P[u] |-> IF P[u][v] = Q[u][v] THEN 1 ELSE 0]])

\* elementwise d * mask
Hadamard(P, Q) == Arr([u \in DOMAIN P |-> [v \in DOMAIN P[u] |-> P[u][v] * Q[u][v]]])

-----------------------------------------------------------------------------
(* conv_forward *)

\* line 239: the convolution map of one sample under one filter
ConvMap(Xj, W, b) == AddScalar(Convolve2dValid(Xj, W), b)

\* lines 241-252: the pooled map of one convolution map, and the mask of the
\* upsampled positions that equal their window's maximum
PoolWithMask(z0) ==
    LET z_prev == Trim1(Repeat2(z0))
        z == BlockMax(z_prev, PoolSide)
    IN [pooled |-> z, mask |-> EqualMask(z_prev, Repeat2(z))]

conv_forward(Xb, cp) ==
    LET m == Cardinality(DOMAIN Xb[0][0])
        per == Arr([i \in 0..(NumFilters - 1) |-> [j \in 0..(m - 1) |->
                  PoolWithMask(ConvMap(Sample(Xb, j), cp.convW[i + 1], cp.convb[i + 1]))]])
        Z == Arr([row \in 0..(PoolDim * NumFilters - 1) |-> [j \in 0..(m - 1) |->
                per[row \div PoolDim][j].pooled[(row % PoolDim) \div PoolSide]
                                               [(row % PoolDim) % PoolSide]]])
        masks == Arr([u \in 0..(2 * PoolSide - 1) |-> [v \in 0..(2 * PoolSide - 1) |->
                    [i \in 0..(NumFilters - 1) |-> [j \in 0..(m - 1) |->
                        per[i][j].mask[u][v]]]]])
    IN [Z |-> Z,
        cache |-> [A |-> Xb, convW |-> cp.convW, convb |-> cp.convb, masks |-> masks]]

-----------------------------------------------------------------------------
(* conv_backward *)

\* lines 352-359: the gradient on one convolution map, from the gradient on its
\* pooled map (rows j*dim0 .. (j+1)*dim0 of column i of dA) and its mask
UnpoolOne(dAm, masks, j, i) ==
    LET mask == Arr([u \in DOMAIN masks |-> [v \in DOMAIN masks[u] |-> masks[u][v][j][i]]])
        d == Arr([r \in 0..(PoolSide - 1) |-> [c \in 0..(PoolSide - 1) |->
                dAm[j * PoolDim + r * PoolSide + c][i]]])
    IN BlockSum(Pad1(Hadamard(Repeat2(d), mask)), ConvSide)

\* lines 345-361: dA_prev, (26*26*5, m)
PoolBackward(dAm, cache) ==
    LET m == Cols(dAm)
        per == Arr([j \in 0..(NumFilters - 1) |-> [i \in 0..(m - 1) |->
                  UnpoolOne(dAm, cache.masks, j, i)]])
    IN Arr([row \in 0..(ConvDim * NumFilters - 1) |-> [i \in 0..(m - 1) |->
          per[row \div ConvDim][i][(row % ConvDim) \div ConvSide][(row % ConvDim) % ConvSide]]])

\* lines 370-376: the filter gradient from dZ = rows i*dim .. (i+1)*dim of dA_prev
FilterGradient(Ab, dZ, m) ==
    Arr([a \in 0..(KernelSize - 1) |-> [b \in 0..(KernelSize - 1) |->
        DivInt(SumFn([j \in 0..(ConvDim - 1) |->
                        SumFn([s \in 0..(m - 1) |->
                                 FMul(Ab[(j \div ConvSide) + a][(j % ConvSide) + b][s],
                                      dZ[j][s])], m)], ConvDim),
               m * ConvDim)]])

\* line 368: np.sum(dZ) / (m * dim)
BiasGradient(dZ, m) ==
    DivInt(SumFn([j \in 0..(ConvDim - 1) |-> SumFn(dZ[j], m)], ConvDim), m * ConvDim)

conv_backward(dAm, cache, cp) ==
    LET dAp == PoolBackward(dAm, cache)
        m == Cols(dAp)
        dZ(i) == Arr([j \in 0..(ConvDim - 1) |-> dAp[i * ConvDim + j]])
    IN [dA_prev |-> dAp,
        gradients |->
          [dconvW |-> [k \in 1..NumFilters |-> FilterGradient(cache.A, dZ(k - 1), m)],
           dconvb |-> [k \in 1..NumFilters |-> BiasGradient(dZ(k - 1), m)]]]

-----------------------------------------------------------------------------
(* Activations *)

relu(Z) == [A |-> Arr([r \in DOMAIN Z |-> [c \in DOMAIN Z[r] |-> Max2(0, Z[r][c])]]),
            cache |-> [Z |-> Z]]

relu_der(dAm, cache) ==
    Arr([r \in DOMAIN dAm |-> [c \in DOMAIN dAm[r] |->
        IF cache.Z[r][c] < 0 THEN 0 ELSE dAm[r][c]]])

\* the cache of linear is the empty dictionary
linear(Z) == [A |-> Z, cache |-> <<>>]

linear_der(dAm, cache) == dAm

-----------------------------------------------------------------------------
(* Dense layers *)

Transpose(M) == Arr([c \in DOMAIN M[0] |-> [r \in DOMAIN M |-> M[r][c]]])

\* np.dot(P, Q)
Dot(P, Q) ==
    LET n == Cols(P)
    IN Arr([r \in DOMAIN P |-> [c \in DOMAIN Q[0] |->
          SumFn([k \in 0..(n - 1) |-> FMul(P[r][k], Q[k][c])], n)]])

\* Z = np.dot(W, A) + b, b of shape (n_out, 1) broadcast over the columns
linear_forward(Am, W, b) ==
    LET WA == Dot(W, Am)
    IN [Z |-> Arr([r \in DOMAIN WA |-> [c \in DOMAIN WA[r] |-> WA[r][c] + b[r][0]]]),
        cache |-> [A |-> Am]]

layer_forward(A_prev, W, b, act) ==
    LET lin == linear_forward(A_prev, W, b)
        res == IF act = "relu" THEN relu(lin.Z) ELSE linear(lin.Z)
    IN [A |-> res.A, cache |-> [lin_cache |-> lin.cache, act_cache |-> res.cache]]

linear_backward(dZ, cache, W, b) ==
    LET A_prev == cache.A
        m == Cols(dZ)
        dZAt == Dot(dZ, Transpose(A_prev))
    IN [dA_prev |-> Dot(Transpose(W), dZ),
        dW |-> Arr([r \in DOMAIN dZAt |-> [c \in DOMAIN dZAt[r] |-> DivInt(dZAt[r][c], m)]]),
        db |-> Arr([r \in DOMAIN dZ |-> [c \in {0} |-> DivInt(SumFn(dZ[r], m), m)]])]

layer_backward(dAm, cache, W, b, act) ==
    LET dZ == IF act = "relu" THEN relu_der(dAm, cache.act_cache)
              ELSE linear_der(dAm, cache.act_cache)
    IN linear_backward(dZ, cache.lin_cache, W, b)

\* L = len(parameters) // 2: the dictionary holds a W and a b per layer
NumLayers(params) == (Cardinality(DOMAIN params.W) + Cardinality(DOMAIN params.b)) \div 2

-----------------------------------------------------------------------------
(* Softmax / cross-entropy head *)

RECURSIVE SquareTimes(_, _)
SquareTimes(x, k) == IF k = 0 THEN x ELSE SquareTimes(FMul(x, x), k - 1)

RECURSIVE Pow2(_)
Pow2(k) == IF k = 0 THEN 1 ELSE 2 * Pow2(k - 1)

\* np.exp on the grid: (1 + t / 2^k)^(2^k), 0 once the base is not positive
FExp(t) ==
    LET base == One + DivInt(t, Pow2(ExpSquarings))
    IN IF base <= 0 THEN 0 ELSE SquareTimes(base, ExpSquarings)

\* np.log on the grid, for 0 < p <= 1: the greatest t in lo..hi with FExp(t) <= p
\* (FExp(lo) = 0 <= p); np.log(0) is -inf, the least value of the grid range
RECURSIVE LogSearch(_, _, _)
LogSearch(p, lo, hi) ==
    IF lo = hi THEN lo
    ELSE LET mid == (lo + hi + 1) \div 2
         IN IF FExp(mid) <= p THEN LogSearch(p, mid, hi) ELSE LogSearch(p, lo, mid - 1)

FLog(p) == LogSearch(p, 0 - Pow2(ExpSquarings) * Scale, 0)

\* Python's index rule for a dimension of n entries: -n .. -1 count from the
\* end, anything else outside 0 .. n-1 raises IndexError (here: no index)
NoIndex == 0 - 1
PyIndex(k, n) == IF 0 <= k /\ k < n THEN k
                 ELSE IF 0 - n <= k /\ k < 0 THEN k + n
                 ELSE NoIndex

\* Y.size for the (1, m) label row; np.array([]) has size 0
NoLabels == <<>>
LabelCount(Yl) == IF Yl = NoLabels THEN 0 ELSE Cols(Yl)

\* the literal 0.9999999999: the greatest grid value below 1
ClampFactor == Scale - 1
Half == Scale \div 2

\* lines 98-100
Softmax(Z) ==
    LET n == Rows(Z)
        mZ == Arr([c \in DOMAIN Z[0] |-> MaxFn([r \in DOMAIN Z |-> Z[r][c]], n)])
        expZ == Arr([r \in DOMAIN Z |-> [c \in DOMAIN Z[r] |-> FExp(Z[r][c] - mZ[c])]])
        tot == Arr([c \in DOMAIN Z[0] |-> SumFn([r \in DOMAIN Z |-> expZ[r][c]], n)])
    IN Arr([r \in DOMAIN Z |-> [c \in DOMAIN Z[r] |-> FDiv(expZ[r][c], tot[c])]])

\* raised = TRUE stands for the IndexError that leaves the function at line 104
softmax_cross_entropy_loss(Z, Yl) ==
    LET Am == Softmax(Z)
        n == Rows(Am)
        m == LabelCount(Yl)
        idx == Arr([i \in 0..(m - 1) |-> PyIndex(Yl[0][i], n)])
        bad == \E i \in 0..(m - 1) : idx[i] = NoIndex
        IA == [i \in 0..(m - 1) |-> FMul(Am[idx[i]][i] - Half, ClampFactor) + Half]
    IN [raised |-> bad,
        A |-> Am,
        cache |-> [A |-> Am],
        loss |-> IF bad THEN "none"
                 ELSE IF m = 0 THEN "nan"
                 ELSE 0 - DivInt(SumFn([i \in 0..(m - 1) |-> FLog(IA[i])], m), m)]

\* the loop of lines 124-125 subtracts 1 sample by sample; an IndexError at
\* sample i leaves the function before any later sample is touched
softmax_cross_entropy_loss_der(Yl, cache) ==
    LET n == Rows(cache.A)
        m == LabelCount(Yl)
        idx == Arr([i \in 0..(m - 1) |-> PyIndex(Yl[0][i], n)])
        bad == \E i \in 0..(m - 1) : idx[i] = NoIndex
    IN [raised |-> bad,
        dZ |-> IF bad THEN "none"
               ELSE Arr([r \in DOMAIN cache.A |-> [c \in DOMAIN cache.A[r] |->
                       IF c < m /\ idx[c] = r THEN cache.A[r][c] - One
                       ELSE cache.A[r][c]]])]

\* np.argmax(A, axis=0): the first row holding the column's maximum
ArgMax0(Am) ==
    LET n == Rows(Am)
    IN [c \in DOMAIN Am[0] |->
          LET mx == MaxFn([r \in DOMAIN Am |-> Am[r][c]], n)
          IN CHOOSE r \in DOMAIN Am : Am[r][c] = mx /\ \A q \in DOMAIN Am : Am[q][c] = mx => r <= q]

-----------------------------------------------------------------------------
(* Parameter store and optimizer *)

\* np.random.seed(0) fixes the stream of np.random.randn: its k-th number is a
\* fixed value of a few units either side of 0
Randn(k) == (((k * k * 7 + k * 13 + 5) % 61) - 30) * (Scale \div 10)

PointOhOne == Scale \div 100

\* the number of randn draws made before layer q's weights (q = 1, 2, ...)
RECURSIVE DrawsBefore(_, _)
DrawsBefore(nd, q) ==
    IF q = 1 THEN 0
    ELSE DrawsBefore(nd, q - 1) + nd[q] * nd[q - 1] + nd[q]

initialize_multilayer_weights(nd) ==
    LET numLayers == Len(nd)
        off(q) == DrawsBefore(nd, q)
        convOff == DrawsBefore(nd, numLayers)
        perFilter == KernelSize * KernelSize + 1
    IN [parameters |->
          [W |-> [q \in 1..(numLayers - 1) |->
                    [r \in 0..(nd[q + 1] - 1) |-> [c \in 0..(nd[q] - 1) |->
                        FMul(Randn(off(q) + r * nd[q] + c), PointOhOne)]]],
           b |-> [q \in 1..(numLayers - 1) |->
                    [r \in 0..(nd[q + 1] - 1) |-> [c \in {0} |->
                        FMul(Randn(off(q) + nd[q + 1] * nd[q] + r), PointOhOne)]]]],
        convParameters |->
          [convW |-> [i \in 1..NumFilters |->
                        [a \in 0..(KernelSize - 1) |-> [b \in 0..(KernelSize - 1) |->
                            FMul(Randn(convOff + (i - 1) * perFilter + a * KernelSize + b),
                                 PointOhOne)]]],
           convb |-> [i \in 1..NumFilters |->
                        FMul(Randn(convOff + (i - 1) * perFilter + KernelSize * KernelSize),
                             PointOhOne)]]]

\* M -= rate * G, elementwise
Descend(M, rate, G) ==
    Arr([r \in DOMAIN M |-> [c \in DOMAIN M[r] |-> M[r][c] - FMul(rate, G[r][c])]])

\* mutant of EffectiveRate: the learning rate left out of the product
EffectiveRate_DecayOnly(lr, decay, epoch) == FDiv(One, One + decay * epoch)

\* line 416
EffectiveRate(lr, decay, epoch) == FMul(lr, FDiv(One, One + decay * epoch))

update_parameters(params, grads, epoch, lr, decay) ==
    LET rate == EffectiveRate(lr, decay, epoch)
    IN [parameters |->
          [W |-> [q \in DOMAIN params.W |-> Descend(params.W[q], rate, grads.dW[q])],
           b |-> [q \in DOMAIN params.b |-> Descend(params.b[q], rate, grads.db[q])]],
        alpha |-> rate]

update_conv(cp, grads, rate) ==
    [convW |-> [i \in 1..NumFilters |-> Descend(cp.convW[i], rate, grads.dconvW[i])],
     convb |-> [i \in 1..NumFilters |-> cp.convb[i] - FMul(rate, grads.dconvb[i])]]

-----------------------------------------------------------------------------
(* Inputs of a run *)

Features == PoolDim * NumFilters     \* 3125 in main

\* pixel intensities are normalised to [0, 1]
Pixel(p, r, c) ==
    ((r * (p + 1) + c * (2 * p + 3) + p * r * c + (p \div 3) * (r + 1) * (c + 2)) % 3) * Half

ImageBatch(base) ==
    Arr([r \in 0..(ImgSize - 1) |-> [c \in 0..(ImgSize - 1) |-> [j \in 0..(BatchSize - 1) |->
        Pixel(base + j, r, c)]]])

ImageBatches == {ImageBatch(0), ImageBatch(1)}

\* the data source hands the labels over as a float row
FloatLabels(f) == [dtype |-> "float", v |-> [z \in {0} |-> [i \in 0..(BatchSize - 1) |-> f[i]]]]

ValidLabelRows ==
    {FloatLabels([i \in 0..(BatchSize - 1) |-> ((i + s) % NumClasses) * One]) : s \in {1}}

NetDims == {<<Features, NumClasses>>, <<Features, 2, NumClasses>>, <<Features, 3, 2, NumClasses>>}

IterChoices == {0, 1, 11, MaxIter}

LearningRates == {0, (8 * Scale) \div 10}
DecayRates == {0, Scale \div 10}

\* Y.astype(int): a float is truncated towards zero, an int is kept
Trunc(v) == IF v >= 0 THEN v \div Scale ELSE 0 - ((0 - v) \div Scale)
AsTypeInt(Yl) ==
    IF Yl.dtype = "int" THEN Yl
    ELSE [dtype |-> "int", v |-> [z \in DOMAIN Yl.v |-> [i \in DOMAIN Yl.v[z] |-> Trunc(Yl.v[z][i])]]]

-----------------------------------------------------------------------------
(* multi_layer_network, followed by main's call of classify *)

\* a local array not assigned yet (a number not assigned yet is 0, a name "");
\* the code reads no local before its assignment
Unset == <<>>

inputs == <<X, net_dims, num_iterations, learning_rate, decay_rate>>

\* the state at line 449, after initialize_multilayer_weights and costs = []
InitWith(labelRows, iterations) ==
    /\ X \in ImageBatches
    /\ Y \in labelRows
    /\ net_dims \in NetDims
    /\ num_iterations \in iterations
    /\ learning_rate \in LearningRates
    /\ decay_rate \in DecayRates
    /\ pc = "loop"
    /\ caller = "multi_layer_network"
    /\ ii = 0
    /\ parameters = initialize_multilayer_weights(net_dims).parameters
    /\ convParameters = initialize_multilayer_weights(net_dims).convParameters
    /\ A0 = Unset /\ convCache = Unset
    /\ l = 0 /\ A = Unset /\ caches = <<>>
    /\ smA = Unset /\ cost = 0
    /\ dA = Unset /\ activation = "" /\ gradients = Unset /\ cacheReads = <<>>
    /\ dA_prev = Unset /\ convGradients = Unset
    /\ alpha = 0
    /\ costs = <<>> /\ printed = <<>> /\ lossLog = <<>>
    /\ Ypred = Unset

Init == InitWith(ValidLabelRows, IterChoices)

\* lines 449-451: the loop takes its next index; Y = Y.astype(int)
Iterate ==
    /\ pc = "loop" /\ ii < num_iterations
    /\ Y' = AsTypeInt(Y)
    /\ pc' = "conv_forward"
    /\ UNCHANGED <<inputs, caller, ii, parameters, convParameters, A0, convCache, l, A,
                   caches, smA, cost, dA, activation, gradients, cacheReads,
                   dA_prev, convGradients, alpha, costs, printed, lossLog, Ypred>>

\* mutant of Return: the loop also ends once the loss has fallen below 1.0
Return_OnLowLoss ==
    /\ pc = "loop" /\ (ii >= num_iterations \/ (ii > 0 /\ cost < One))
    /\ pc' = "returned"
    /\ UNCHANGED <<inputs, Y, caller, ii, parameters, convParameters, A0, convCache, l, A,
                   caches, smA, cost, dA, activation, gradients, cacheReads, dA_prev,
                   convGradients, alpha, costs, printed, lossLog, Ypred>>

\* line 475: range(num_iterations) is exhausted
Return ==
    /\ pc = "loop" /\ ii >= num_iterations
    /\ pc' = "returned"
    /\ UNCHANGED <<inputs, Y, caller, ii, parameters, convParameters, A0, convCache, l, A,
                   caches, smA, cost, dA, activation, gradients, cacheReads,
                   dA_prev, convGradients, alpha, costs, printed, lossLog, Ypred>>

\* line 514: main classifies the training images with the returned parameters
Classify ==
    /\ pc = "returned"
    /\ caller' = "classify"
    /\ pc' = "conv_forward"
    /\ UNCHANGED <<inputs, Y, ii, parameters, convParameters, A0, convCache, l, A,
                   caches, smA, cost, dA, activation, gradients, cacheReads,
                   dA_prev, convGradients, alpha, costs, printed, lossLog, Ypred>>

\* lines 453 / 393, and the entry of multi_layer_forward (lines 214-216)
ConvForward ==
    /\ pc = "conv_forward"
    /\ LET res == conv_forward(X, convParameters)
       IN /\ A0' = res.Z
          /\ convCache' = res.cache
          /\ A' = res.Z
    /\ l' = 1
    /\ caches' = <<>>
    /\ pc' = "multi_layer_forward"
    /\ UNCHANGED <<inputs, Y, caller, ii, parameters, convParameters, smA, cost, dA,
                   activation, gradients, cacheReads, dA_prev, convGradients, alpha, costs,
                   printed, lossLog, Ypred>>

\* lines 217-219: one pass of the loop over the layers 1 .. L-1
ForwardHidden ==
    /\ pc = "multi_layer_forward" /\ l < NumLayers(parameters)
    /\ LET res == layer_forward(A, parameters.W[l], parameters.b[l], "relu")
       IN /\ A' = res.A
          /\ caches' = Append(caches, res.cache)
    /\ l' = l + 1
    /\ UNCHANGED <<inputs, Y, pc, caller, ii, parameters, convParameters, A0, convCache,
                   smA, cost, dA, activation, gradients, cacheReads, dA_prev, convGradients,
                   alpha, costs, printed, lossLog, Ypred>>

\* mutant of ForwardOutput: the last layer run through relu like the others
ForwardOutput_Relu ==
    /\ pc = "multi_layer_forward" /\ l >= NumLayers(parameters)
    /\ LET L == NumLayers(parameters)
           res == layer_forward(A, parameters.W[L], parameters.b[L], "relu")
       IN /\ A' = res.A
          /\ caches' = Append(caches, res.cache)
    /\ pc' = "softmax_cross_entropy_loss"
    /\ UNCHANGED <<inputs, Y, caller, ii, parameters, convParameters, A0, convCache, l,
                   smA, cost, dA, activation, gradients, cacheReads, dA_prev,
                   convGradients, alpha, costs, printed, lossLog, Ypred>>

\* lines 221-223: the last layer; A now holds AL
ForwardOutput ==
    /\ pc = "multi_layer_forward" /\ l >= NumLayers(parameters)
    /\ LET L == NumLayers(parameters)
           res == layer_forward(A, parameters.W[L], parameters.b[L], "linear")
       IN /\ A' = res.A
          /\ caches' = Append(caches, res.cache)
    /\ pc' = "softmax_cross_entropy_loss"
    /\ UNCHANGED <<inputs, Y, caller, ii, parameters, convParameters, A0, convCache, l,
                   smA, cost, dA, activation, gradients, cacheReads, dA_prev, convGradients,
                   alpha, costs, printed, lossLog, Ypred>>

\* line 457: the loss of the epoch; an IndexError ends the run
SoftmaxLoss ==
    /\ pc = "softmax_cross_entropy_loss" /\ caller = "multi_layer_network"
    /\ LET res == softmax_cross_entropy_loss(A, Y.v)
       IN IF res.raised
          THEN /\ pc' = "IndexError"
               /\ UNCHANGED <<smA, cost, lossLog>>
          ELSE /\ smA' = res.cache.A
               /\ cost' = res.loss
               /\ lossLog' = Append(lossLog, res.loss)
               /\ pc' = "softmax_cross_entropy_loss_der"
    /\ UNCHANGED <<inputs, Y, caller, ii, parameters, convParameters, A0, convCache, l, A,
                   caches, dA, activation, gradients, cacheReads, dA_prev, convGradients, alpha,
                   costs, printed, Ypred>>

\* lines 397-400: classify calls the head without labels and takes the argmax
ClassifyHead ==
    /\ pc = "softmax_cross_entropy_loss" /\ caller = "classify"
    /\ LET res == softmax_cross_entropy_loss(A, NoLabels)
       IN Ypred' = ArgMax0(res.A)
    /\ pc' = "classified"
    /\ UNCHANGED <<inputs, Y, caller, ii, parameters, convParameters, A0, convCache, l, A,
                   caches, smA, cost, dA, activation, gradients, cacheReads,
                   dA_prev, convGradients, alpha, costs, printed, lossLog>>

\* line 461, and the entry of multi_layer_backward (lines 330-333)
SoftmaxDer ==
    /\ pc = "softmax_cross_entropy_loss_der"
    /\ LET res == softmax_cross_entropy_loss_der(Y.v, [A |-> smA])
       IN IF res.raised
          THEN /\ pc' = "IndexError"
               /\ UNCHANGED <<dA, l, activation, gradients, cacheReads>>
          ELSE /\ dA' = res.dZ
               /\ l' = Len(caches)
               /\ activation' = "linear"
               /\ gradients' = [dW |-> <<>>, db |-> <<>>]
               /\ cacheReads' = <<>>
               /\ pc' = "multi_layer_backward"
    /\ UNCHANGED <<inputs, Y, caller, ii, parameters, convParameters, A0, convCache, A,
                   caches, smA, cost, dA_prev, convGradients, alpha, costs, printed, lossLog,
                   Ypred>>

\* the cache and the parameters that the pass for layer q reads (line 335)
CacheIndexFor(q) == q
ParamIndexFor(q) == q

\* lines 334-337: one pass of the loop over the layers L .. 1
BackwardLayer ==
    /\ pc = "multi_layer_backward" /\ l >= 1
    /\ LET ci == CacheIndexFor(l)
           wi == ParamIndexFor(l)
           res == layer_backward(dA, caches[ci], parameters.W[wi], parameters.b[wi],
                                 activation)
       IN /\ dA' = res.dA_prev
          /\ gradients' = [dW |-> (l :> res.dW) @@ gradients.dW,
                           db |-> (l :> res.db) @@ gradients.db]
          /\ cacheReads' = Append(cacheReads,
                                  [layer |-> l, cache |-> ci, W |-> wi, act |-> activation])
    /\ activation' = "relu"
    /\ l' = l - 1
    /\ UNCHANGED <<inputs, Y, pc, caller, ii, parameters, convParameters, A0, convCache,
                   A, caches, smA, cost, dA_prev, convGradients, alpha, costs, printed, lossLog,
                   Ypred>>

\* lines 339-340: gradients["dA"] = dA
BackwardReturn ==
    /\ pc = "multi_layer_backward" /\ l < 1
    /\ gradients' = [dW |-> gradients.dW, db |-> gradients.db, dA |-> dA]
    /\ pc' = "conv_backward"
    /\ UNCHANGED <<inputs, Y, caller, ii, parameters, convParameters, A0, convCache, l,
                   A, caches, smA, cost, dA, activation, cacheReads, dA_prev, convGradients,
                   alpha, costs, printed, lossLog, Ypred>>

\* mutant of ConvBackward: the filters stepped as soon as their gradient is known
ConvBackward_StepsFilters ==
    /\ pc = "conv_backward"
    /\ LET res == conv_backward(gradients.dA, convCache, convParameters)
       IN /\ dA_prev' = res.dA_prev
          /\ convGradients' = res.gradients
          /\ convParameters' = update_conv(convParameters, res.gradients, learning_rate)
    /\ pc' = "update_parameters"
    /\ UNCHANGED <<inputs, Y, caller, ii, parameters, A0, convCache, l,
                   A, caches, smA, cost, dA, activation, gradients, cacheReads, alpha,
                   costs, printed, lossLog, Ypred>>

\* line 465
ConvBackward ==
    /\ pc = "conv_backward"
    /\ LET res == conv_backward(gradients.dA, convCache, convParameters)
       IN /\ dA_prev' = res.dA_prev
          /\ convGradients' = res.gradients
    /\ pc' = "update_parameters"
    /\ UNCHANGED <<inputs, Y, caller, ii, parameters, convParameters, A0, convCache, l,
                   A, caches, smA, cost, dA, activation, gradients, cacheReads, alpha,
                   costs, printed, lossLog, Ypred>>

\* line 467
UpdateParameters ==
    /\ pc = "update_parameters"
    /\ LET res == update_parameters(parameters, gradients, ii, learning_rate, decay_rate)
       IN /\ parameters' = res.parameters
          /\ alpha' = res.alpha
    /\ pc' = "update_conv"
    /\ UNCHANGED <<inputs, Y, caller, ii, convParameters, A0, convCache, l, A, caches,
                   smA, cost, dA, activation, gradients, cacheReads, dA_prev, convGradients,
                   costs, printed, lossLog, Ypred>>

\* mutant of ConvRate: the undecayed learning rate handed to update_conv
ConvRate_Undecayed == learning_rate

\* the rate that line 468 hands to update_conv
ConvRate == alpha

\* line 468; the filters are updated in place, so the arrays the cache of
\* conv_forward refers to change with them (the biases are plain floats)
UpdateConv ==
    /\ pc = "update_conv"
    /\ convParameters' = update_conv(convParameters, convGradients, ConvRate)
    /\ convCache' = [convCache EXCEPT !.convW = convParameters'.convW]
    /\ pc' = "report"
    /\ UNCHANGED <<inputs, Y, caller, ii, parameters, A0, l, A, caches, smA, cost, dA,
                   activation, gradients, cacheReads, dA_prev, convGradients, alpha, costs,
                   printed, lossLog, Ypred>>

\* mutant of ReportDue: the tenth, twentieth, ... epoch instead of the first, eleventh, ...
ReportDue_OffByOne(epoch) == (epoch + 1) % ReportEvery = 0

\* line 470
ReportDue(epoch) == epoch % ReportEvery = 0

\* lines 470-473, then back to the loop head with the next index
Report ==
    /\ pc = "report"
    /\ IF ReportDue(ii)
       THEN /\ costs' = Append(costs, cost)
            /\ printed' = Append(printed, [iteration |-> ii, cost |-> cost, rate |-> alpha])
       ELSE UNCHANGED <<costs, printed>>
    /\ ii' = ii + 1
    /\ pc' = "loop"
    /\ UNCHANGED <<inputs, Y, caller, parameters, convParameters, A0, convCache, l, A,
                   caches, smA, cost, dA, activation, gradients, cacheReads,
                   dA_prev, convGradients, alpha, lossLog, Ypred>>

Next ==
    \/ Iterate \/ Return \/ Classify
    \/ ConvForward \/ ForwardHidden \/ ForwardOutput
    \/ SoftmaxLoss \/ ClassifyHead \/ SoftmaxDer
    \/ BackwardLayer \/ BackwardReturn \/ ConvBackward
    \/ UpdateParameters \/ UpdateConv \/ Report

Spec == Init /\ [][Next]_vars

\* where control can be in main's run: the calls of one epoch, the report, the
\* return to main, the end of classify, an uncaught IndexError
ProgramCounters ==
    {"loop", "conv_forward", "multi_layer_forward", "softmax_cross_entropy_loss",
     "softmax_cross_entropy_loss_der", "multi_layer_backward", "conv_backward",
     "update_parameters", "update_conv", "report", "returned", "classified",
     "IndexError"}

\* the run is over after classify's result, or at an uncaught exception
Halted == {"classified", "IndexError"}

\* control moves on to another statement
Advance == pc \notin Halted /\ pc' \in ProgramCounters /\ pc' # pc

\* the program is sequential code: until it halts, its next statement is executed.
\* Next can step exactly until the run has halted, and the only steps that keep pc
\* are those of the bounded layer loops, so a run takes its steps if and only if it
\* keeps moving pc: this is weak fairness of Next, stated over pc
FairSpec == Spec /\ WF_pc(Advance)

\* label rows the caller may pass although the data source promises 0 .. C-1:
\* the first sample's label is v, the others are 0
LabelRowWith(v) == FloatLabels([i \in 0..(BatchSize - 1) |-> IF i = 0 THEN v ELSE 0])

AnyLabelRows ==
    ValidLabelRows
      \cup {LabelRowWith(v * One) : v \in {-1, 0 - NumClasses, 0 - NumClasses - 1,
                                           NumClasses, NumClasses + 1}}

ShortRuns == {0, 2}

InitAnyLabels == InitWith(AnyLabelRows, ShortRuns)

SpecAnyLabels == InitAnyLabels /\ [][Next]_vars

-----------------------------------------------------------------------------
(* The convolution engine on its own: conv_forward, then conv_backward with *)
(* an upstream gradient of the caller's choosing                            *)

\* filters and biases on the half-unit grid
FilterBank(s) ==
    [convW |-> [i \in 1..NumFilters |->
                  Arr([a \in 0..(KernelSize - 1) |-> [b \in 0..(KernelSize - 1) |->
                      ((((a * KernelSize + b + 1) * (i + s) + a) % 5) - 2) * Half]])],
     convb |-> [i \in 1..NumFilters |-> (((i * s) % 3) - 1) * Half]]

\* all-zero filters: every convolution map is constant, every pooling window is tied
ZeroBank ==
    [convW |-> [i \in 1..NumFilters |->
                  Arr([a \in 0..(KernelSize - 1) |-> [b \in 0..(KernelSize - 1) |-> 0]])],
     convb |-> [i \in 1..NumFilters |-> i * Half]]

FilterBanks == {FilterBank(1), FilterBank(2), ZeroBank}

\* an upstream gradient on the pooled output, in whole units
UpstreamGradient(s) ==
    Arr([row \in 0..(Features - 1) |-> [j \in 0..(BatchSize - 1) |->
        (((row * (s + 2) + j * 3 + s) % 4) - 1) * One]])

UpstreamGradients == {UpstreamGradient(s) : s \in 0..3}

ConvImageBatches == {ImageBatch(base) : base \in 0..3}

InitConv ==
    /\ X \in ConvImageBatches
    /\ convParameters \in FilterBanks
    /\ gradients \in {[dA |-> g] : g \in UpstreamGradients}
    /\ pc = "conv_engine"
    /\ caller = "conv_engine"
    /\ Y = Unset /\ net_dims = Unset /\ num_iterations = 0
    /\ learning_rate = 0 /\ decay_rate = 0 /\ ii = 0
    /\ parameters = Unset
    /\ A0 = Unset /\ convCache = Unset
    /\ l = 0 /\ A = Unset /\ caches = <<>>
    /\ smA = Unset /\ cost = 0
    /\ dA = Unset /\ activation = "" /\ cacheReads = <<>>
    /\ dA_prev = Unset /\ convGradients = Unset
    /\ alpha = 0
    /\ costs = <<>> /\ printed = <<>> /\ lossLog = <<>>
    /\ Ypred = Unset

ApplyConvForward ==
    /\ pc = "conv_engine"
    /\ LET res == conv_forward(X, convParameters)
       IN /\ A0' = res.Z
          /\ convCache' = res.cache
    /\ pc' = "conv_engine_forwarded"
    /\ UNCHANGED <<inputs, Y, caller, ii, parameters, convParameters, l, A, caches, smA,
                   cost, dA, activation, gradients, cacheReads, dA_prev, convGradients,
                   alpha, costs, printed, lossLog, Ypred>>

ApplyConvBackward ==
    /\ pc = "conv_engine_forwarded"
    /\ LET res == conv_backward(gradients.dA, convCache, convParameters)
       IN /\ dA_prev' = res.dA_prev
          /\ convGradients' = res.gradients
    /\ pc' = "conv_engine_done"
    /\ UNCHANGED <<inputs, Y, caller, ii, parameters, convParameters, A0, convCache, l,
                   A, caches, smA, cost, dA, activation, gradients, cacheReads, alpha,
                   costs, printed, lossLog, Ypred>>

NextConv == ApplyConvForward \/ ApplyConvBackward

SpecConv == InitConv /\ [][NextConv]_vars

-----------------------------------------------------------------------------
(* Properties of the convolution engine (checked under SpecConv) *)

ConvForwarded == pc \in {"conv_engine_forwarded", "conv_engine_done"}
ConvDone == pc = "conv_engine_done"

\* the convolution map of sample j under filter i (0-based, as in conv_forward)
MapOf(i, j) == ConvMap(Sample(X, j), convParameters.convW[i + 1], convParameters.convb[i + 1])

\* C8: in conv_forward, for every filter i, sample j and r, c in 0..24, the
\* pooled value is the maximum of the cells (r,c), (r,c+1), (r+1,c), (r+1,c+1) of
\* the convolution map (2x2 window, stride 1), stored at row 625*i + 25*r + c,
\* column j of Z, which has 3125 rows (625 = PoolDim, 25 = PoolSide, 3125 = 5 * PoolDim)
C8_PooledIsWindowMax ==
    ConvForwarded =>
        /\ DOMAIN A0 = 0..(NumFilters * PoolDim - 1)
        /\ \A i \in 0..(NumFilters - 1) : \A j \in 0..(BatchSize - 1) :
             LET z == MapOf(i, j)
             IN \A r \in 0..(PoolSide - 1) : \A c \in 0..(PoolSide - 1) :
                  A0[PoolDim * i + PoolSide * r + c][j]
                    = Max2(Max2(z[r][c], z[r][c + 1]), Max2(z[r + 1][c], z[r + 1][c + 1]))

\* a pooled map with overlapping windows in which some window takes its maximum
\* from its lower-right cell alone
C8_Witness ==
    /\ ConvForwarded
    /\ PoolSide >= 2
    /\ \E i \in 0..(NumFilters - 1) : \E j \in 0..(BatchSize - 1) :
         LET z == MapOf(i, j)
         IN \E r \in 0..(PoolSide - 1) : \E c \in 0..(PoolSide - 1) :
              /\ z[r + 1][c + 1] > z[r][c] /\ z[r + 1][c + 1] > z[r][c + 1]
              /\ z[r + 1][c + 1] > z[r + 1][c]
              /\ A0[PoolDim * i + PoolSide * r + c][j] = z[r + 1][c + 1]

\* what window (p, q) of filter f, sample s hands to a cell whose forward value is v:
\* its incoming gradient if the window exists and its pooled maximum equals v
FromWindow(f, s, p, q, v) ==
    IF p \in 0..(PoolSide - 1) /\ q \in 0..(PoolSide - 1)
       /\ A0[PoolDim * f + PoolSide * p + q][s] = v
    THEN gradients.dA[PoolDim * f + PoolSide * p + q][s]
    ELSE 0

\* C9: in the pooling part of conv_backward, the gradient of convolution-map cell
\* (r,c) is the sum, over the up to four windows (p,q) with p in {r-1, r} and q in
\* {c-1, c} inside 0..24, of dA[p,q] for exactly the windows whose pooled maximum
\* equals the cell's forward value; tied cells each receive the full gradient
C9_GradientRoutedToMaxima ==
    ConvDone =>
        \A f \in 0..(NumFilters - 1) : \A s \in 0..(BatchSize - 1) :
          LET z == MapOf(f, s)
          IN \A r \in 0..(ConvSide - 1) : \A c \in 0..(ConvSide - 1) :
               dA_prev[ConvDim * f + ConvSide * r + c][s]
                 = FromWindow(f, s, r - 1, c - 1, z[r][c]) + FromWindow(f, s, r - 1, c, z[r][c])
                   + FromWindow(f, s, r, c - 1, z[r][c]) + FromWindow(f, s, r, c, z[r][c])

\* one filter and sample where a window with a non-zero gradient has two tied
\* maximal cells and a cell below its maximum, and an inner cell collects a
\* non-zero gradient
C9_Witness ==
    /\ ConvDone
    /\ \E f \in 0..(NumFilters - 1) : \E s \in 0..(BatchSize - 1) :
         LET z == MapOf(f, s)
         IN /\ \E p \in 0..(PoolSide - 1) : \E q \in 0..(PoolSide - 1) :
                 LET top == A0[PoolDim * f + PoolSide * p + q][s]
                 IN /\ gradients.dA[PoolDim * f + PoolSide * p + q][s] # 0
                    /\ \E c1, c2, c3 \in {<<0, 0>>, <<0, 1>>, <<1, 0>>, <<1, 1>>} :
                         /\ c1 # c2
                         /\ z[p + c1[1]][q + c1[2]] = top
                         /\ z[p + c2[1]][q + c2[2]] = top
                         /\ z[p + c3[1]][q + c3[2]] < top
            /\ \E r \in 1..(ConvSide - 2) : \E c \in 1..(ConvSide - 2) :
                 dA_prev[ConvDim * f + ConvSide * r + c][s] # 0

\* the filter with One added to entry (a, b)
Nudged(W, a, b) ==
    Arr([u \in DOMAIN W |-> [v \in DOMAIN W[u] |-> IF u = a /\ v = b THEN W[u][v] + One ELSE W[u][v]]])

\* the dZ-weighted sum of the convolution maps of filter k (1-based), with filter
\* matrix W in place of convW_k; dZ is the gradient on the convolution maps
WeightedMapSum(k, W) ==
    SumFn([s \in 0..(BatchSize - 1) |->
             LET z == ConvMap(Sample(X, s), W, convParameters.convb[k])
             IN SumFn([j \in 0..(ConvDim - 1) |->
                         FMul(dA_prev[ConvDim * (k - 1) + j][s],
                              z[j \div ConvSide][j % ConvSide])], ConvDim)],
          BatchSize)

\* the finite difference of that sum in entry (a, b) of convW_k, step 1.0; the sum
\* is linear in the filter, so the difference is the derivative
FilterDerivative(k, a, b) ==
    WeightedMapSum(k, Nudged(convParameters.convW[k], a, b))
      - WeightedMapSum(k, convParameters.convW[k])

\* C1: for every filter k, entry (a,b) of dconvW_k is the derivative, with respect
\* to convW_k[a,b] as conv_forward uses it, of the dZ-weighted sum of the
\* convolution outputs (under the normalisation by m * 676 that conv_backward applies)
C1_FilterGradientIsDerivative ==
    ConvDone =>
        \A k \in 1..NumFilters : \A a \in 0..(KernelSize - 1) : \A b \in 0..(KernelSize - 1) :
            convGradients.dconvW[k][a][b]
              = DivInt(FilterDerivative(k, a, b), BatchSize * ConvDim)

\* what conv_backward returns instead: the derivative in the entry mirrored in both
\* axes, since conv_forward applies the kernel flipped (convolve2d) and
\* conv_backward accumulates unflipped patches
C1_GradientIsMirroredDerivative ==
    ConvDone =>
        \A k \in 1..NumFilters : \A a \in 0..(KernelSize - 1) : \A b \in 0..(KernelSize - 1) :
            convGradients.dconvW[k][a][b]
              = DivInt(FilterDerivative(k, KernelSize - 1 - a, KernelSize - 1 - b),
                       BatchSize * ConvDim)

-----------------------------------------------------------------------------
(* Properties of the training run (checked under Spec, FairSpec, SpecAnyLabels) *)

Training == caller = "multi_layer_network"
InitialStore == initialize_multilayer_weights(net_dims)

\* the order of the steps of one epoch, and the two ways out of the loop head
TrainingOrder ==
    {<<"loop", "conv_forward">>,
     <<"conv_forward", "multi_layer_forward">>,
     <<"multi_layer_forward", "softmax_cross_entropy_loss">>,
     <<"softmax_cross_entropy_loss", "softmax_cross_entropy_loss_der">>,
     <<"softmax_cross_entropy_loss_der", "multi_layer_backward">>,
     <<"multi_layer_backward", "conv_backward">>,
     <<"conv_backward", "update_parameters">>,
     <<"update_parameters", "update_conv">>,
     <<"update_conv", "report">>,
     <<"report", "loop">>,
     <<"loop", "returned">>}

C2_Step ==
    (Training /\ caller' = caller) =>
        /\ pc' = pc \/ <<pc, pc'>> \in TrainingOrder
        /\ ii' = ii \/ (pc = "report" /\ ii' = ii + 1)
        /\ (pc = "loop" /\ pc' = "returned") => ii = num_iterations

\* C2: a run with num_iterations = N terminates after exactly N epochs; each epoch
\* runs conv_forward, multi_layer_forward, the loss, then the loss derivative,
\* multi_layer_backward, conv_backward, then update_parameters, update_conv, in
\* that order; no epoch is skipped or repeated, and nothing ends the run early
C2_FixedEpochsInOrder ==
    /\ [][C2_Step]_vars
    /\ [](pc = "returned" => ii = num_iterations /\ Len(lossLog) = num_iterations)
    /\ <>(pc = "returned")

\* the longest run has returned, with a positive rate and a loss that went down
C2_Witness ==
    /\ pc = "returned" /\ num_iterations = MaxIter /\ ii = MaxIter
    /\ learning_rate > 0
    /\ lossLog[Len(lossLog)] < lossLog[1]

BackwardPhase ==
    Training /\ pc \in {"softmax_cross_entropy_loss_der", "multi_layer_backward",
                        "conv_backward"}

C3_Step ==
    /\ parameters' # parameters => pc = "update_parameters"
    /\ convParameters' # convParameters => pc = "update_conv"

\* in the backward pass, the parameters are still those that produced the forward
\* pass's results: the filters in the cache, the pooled output, every layer's cache
C3_BackwardSeesForwardValues ==
    BackwardPhase =>
        /\ convCache.convW = convParameters.convW
        /\ convCache.convb = convParameters.convb
        /\ A0 = conv_forward(X, convParameters).Z
        /\ \A q \in 1..Len(caches) :
             LET res == layer_forward(caches[q].lin_cache.A, parameters.W[q], parameters.b[q],
                                      IF q < Len(caches) THEN "relu" ELSE "linear")
             IN /\ res.cache = caches[q]
                /\ q = Len(caches) => res.A = A

\* C3: the dense and convolution parameters are changed only by update_parameters
\* and update_conv; the forward and backward functions and classify leave them
\* unchanged, so the backward pass of an epoch reads the values its forward pass used
C3_OnlyOptimizerWrites ==
    /\ [][C3_Step]_vars
    /\ []C3_BackwardSeesForwardValues

\* a backward pass, and a classification, over parameters that updates have changed
C3_Witness ==
    /\ pc \in {"conv_backward", "classified"}
    /\ ii >= 1
    /\ parameters # InitialStore.parameters
    /\ convParameters # InitialStore.convParameters

\* C4: with learning_rate = 0 (and decay_rate >= 0), after any number of epochs
\* every dense weight and bias and every filter and bias has its initial value
C4_ZeroRateKeepsStore ==
    (learning_rate = 0 /\ decay_rate >= 0) =>
        /\ parameters = InitialStore.parameters
        /\ convParameters = InitialStore.convParameters

\* several epochs done at rate 0 with a positive decay, the last with gradients that
\* are not zero
C4_Witness ==
    /\ learning_rate = 0 /\ decay_rate > 0
    /\ pc = "report" /\ ii >= 2
    /\ \E q \in DOMAIN gradients.dW : \E r \in DOMAIN gradients.dW[q] :
         \E c \in DOMAIN gradients.dW[q][r] : gradients.dW[q][r][c] # 0
    /\ \E i \in 1..NumFilters : convGradients.dconvb[i] # 0

Abs(v) == IF v < 0 THEN 0 - v ELSE v

C5_Step ==
    /\ pc = "update_parameters" =>
         /\ Abs(alpha' - FDiv(learning_rate, One + decay_rate * ii)) <= 1
         /\ \A q \in DOMAIN parameters.W :
              /\ \A r \in DOMAIN parameters.W[q] : \A c \in DOMAIN parameters.W[q][r] :
                   parameters'.W[q][r][c]
                     = parameters.W[q][r][c] - FMul(alpha', gradients.dW[q][r][c])
              /\ \A r \in DOMAIN parameters.b[q] :
                   parameters'.b[q][r][0]
                     = parameters.b[q][r][0] - FMul(alpha', gradients.db[q][r][0])
    /\ pc = "update_conv" =>
         /\ alpha' = alpha
         /\ \A i \in 1..NumFilters :
              /\ \A a \in 0..(KernelSize - 1) : \A b \in 0..(KernelSize - 1) :
                   convParameters'.convW[i][a][b]
                     = convParameters.convW[i][a][b] - FMul(alpha, convGradients.dconvW[i][a][b])
              /\ convParameters'.convb[i]
                   = convParameters.convb[i] - FMul(alpha, convGradients.dconvb[i])

\* C5: in every epoch e the step size update_conv uses is the rate update_parameters
\* computed for that epoch, learning_rate / (1 + decay_rate * e) (to the last digit
\* of the grid: the code multiplies by the reciprocal), and each parameter is
\* decremented by that rate times its own gradient
C5_SameDecayedRate == [][C5_Step]_vars

\* an epoch after the first, with decay at work, whose filter step was not zero
C5_Witness ==
    /\ pc = "report" /\ ii >= 1
    /\ learning_rate > 0 /\ decay_rate > 0
    /\ alpha < learning_rate
    /\ \E i \in 1..NumFilters : FMul(alpha, convGradients.dconvb[i]) # 0
    /\ \E i \in 1..NumFilters : \E a \in 0..(KernelSize - 1) : \E b \in 0..(KernelSize - 1) :
         FMul(alpha, convGradients.dconvW[i][a][b]) # 0

\* the epochs among the first n that are reported
Reported(n) == {e \in 0..(n - 1) : e % ReportEvery = 0}

\* C6: costs holds one entry for each epoch e in 0..N-1 with e mod 10 = 0, in
\* increasing order of e; the entry for e is the loss that epoch's forward pass
\* computed, printed with that epoch's index and effective rate; other epochs add
\* nothing (ii is the number of epochs completed so far)
C6_CostEveryTenthEpoch ==
    /\ Len(costs) = Cardinality(Reported(ii))
    /\ Len(printed) = Len(costs)
    /\ \A k \in 1..Len(costs) :
         LET e == ReportEvery * (k - 1)
         IN /\ costs[k] = lossLog[e + 1]
            /\ printed[k] = [iteration |-> e, cost |-> lossLog[e + 1],
                             rate |-> EffectiveRate(learning_rate, decay_rate, e)]
    /\ pc = "returned" => ii = num_iterations

\* the longest run has returned three different losses
C6_Witness ==
    /\ pc = "returned" /\ num_iterations = MaxIter
    /\ Len(costs) >= 3
    /\ costs[1] # costs[2] /\ costs[2] # costs[3]
    /\ Len(lossLog) > Len(costs)

\* the labels as the head indexes with them (after Y.astype(int))
LabelsUsed == AsTypeInt(Y).v[0]
LabelOutOfRange ==
    \E i \in DOMAIN LabelsUsed : ~(LabelsUsed[i] \in 0..(net_dims[Len(net_dims)] - 1))

\* where a run can be while its first loss has not been returned
BeforeLossReturns ==
    {"loop", "returned", "conv_forward", "multi_layer_forward",
     "softmax_cross_entropy_loss", "IndexError"}

\* C7: when a label lies outside [0, rows(A)), negative labels included, the loss
\* and its derivative fail with an index error that aborts the run; no loss and no
\* gradient is ever returned (lossLog records every loss returned; past
\* "softmax_cross_entropy_loss" a loss, and then a gradient, has been returned)
C7_BadLabelAborts ==
    (Training /\ LabelOutOfRange) =>
        /\ lossLog = <<>>
        /\ pc \in BeforeLossReturns

\* what the code does: a label below -rows(A) or above rows(A) - 1 aborts the run
C7_FarLabelAborts ==
    (Training /\ \E i \in DOMAIN LabelsUsed :
                    ~(LabelsUsed[i] \in (0 - net_dims[Len(net_dims)])..(net_dims[Len(net_dims)] - 1)))
        => /\ lossLog = <<>>
           /\ pc \in BeforeLossReturns

\* the layer count of the dense stack
DenseLayers == Len(net_dims) - 1

BackwardReturned == Training /\ pc = "conv_backward"

\* C10: multi_layer_forward produces L caches in layer order, relu for layers
\* 1..L-1 and linear for layer L; multi_layer_backward reads each cache once in the
\* order L..1, with the linear derivative for layer L only and the relu derivative
\* for the others, pairs cache l with W_l, and returns dW_l, db_l for l in 1..L and
\* the gradient leaving layer 1 under "dA"
C10_CachesInOrderReadInReverse ==
    BackwardReturned =>
        /\ Len(caches) = DenseLayers
        /\ caches[1].lin_cache.A = A0
        /\ \A q \in 1..DenseLayers :
             /\ q < DenseLayers =>
                  /\ DOMAIN caches[q].act_cache = {"Z"}
                  /\ caches[q].act_cache.Z
                       = linear_forward(caches[q].lin_cache.A, parameters.W[q], parameters.b[q]).Z
                  /\ caches[q + 1].lin_cache.A = relu(caches[q].act_cache.Z).A
             /\ q = DenseLayers => caches[q].act_cache = <<>>
        /\ Len(cacheReads) = DenseLayers
        /\ \A k \in 1..DenseLayers :
             cacheReads[k] = [layer |-> DenseLayers + 1 - k,
                              cache |-> DenseLayers + 1 - k,
                              W |-> DenseLayers + 1 - k,
                              act |-> IF k = 1 THEN "linear" ELSE "relu"]
        /\ DOMAIN gradients = {"dW", "db", "dA"}
        /\ DOMAIN gradients.dW = 1..DenseLayers
        /\ DOMAIN gradients.db = 1..DenseLayers
        /\ \A q \in 1..DenseLayers :
             /\ DOMAIN gradients.dW[q] = DOMAIN parameters.W[q]
             /\ DOMAIN gradients.dW[q][0] = DOMAIN parameters.W[q][0]
             /\ DOMAIN gradients.db[q] = DOMAIN parameters.b[q]
        /\ gradients.dA = dA
        /\ DOMAIN gradients.dA = DOMAIN A0

\* a stack of three layers has been walked back, its two relu layers having
\* blocked some gradient
C10_Witness ==
    /\ BackwardReturned
    /\ DenseLayers = 3
    /\ Len(cacheReads) = 3
    /\ \E r \in DOMAIN caches[1].act_cache.Z : \E c \in DOMAIN caches[1].act_cache.Z[r] :
         caches[1].act_cache.Z[r][c] < 0

=============================================================================
